---- MODULE Spec2Model ----
(***************************************************************************)
(* A model of the AWS cost calculator: the CloudResource hierarchy         *)
(* (EC2Instance, LambdaFunction, S3Bucket, EBSVolume, RDSDatabase), its    *)
(* validation and pricing rules, and the AWSResourcesManager registry.     *)
(*                                                                         *)
(* The caller holds references to the resources it constructed; the        *)
(* Manager's dictionary holds references to the same objects.  A state is  *)
(* the heap of constructed objects, the Manager's dictionary (in insertion *)
(* order) and the outcome of the last call.                                *)
(*                                                                         *)
(* Python floats are modelled as exact rationals plus the value NaN, which *)
(* every comparison answers with False.                                    *)
(***************************************************************************)
EXTENDS Integers, Sequences, FiniteSets, TLC

\* Number of objects the caller constructs (the size of the heap).
NumObjs == 2

Objs == 1..NumObjs

-----------------------------------------------------------------------------
(* Numbers: Python int and float values.                                   *)

RECURSIVE GCD(_, _)
GCD(a, b) == IF b = 0 THEN a ELSE GCD(b, a % b)

Abs(a) == IF a < 0 THEN 0 - a ELSE a

\* The rational n/d (d > 0) in lowest terms.
Rat(n, d) ==
    LET g == GCD(Abs(n), d)
    IN  [k |-> "fin", n |-> n \div g, d |-> d \div g]

NaN == [k |-> "nan", n |-> 0, d |-> 1]

Zero == Rat(0, 1)

IsNaN(x) == x.k = "nan"

\* An int too large to be converted to a float (such as 10**400); it
\* compares with 0 as a positive number
Huge == [k |-> "huge", n |-> 1, d |-> 1]

\* The outcome of float arithmetic that raised OverflowError
Overflowed == [k |-> "OverflowError", n |-> 0, d |-> 1]

\* x cannot be an operand of float arithmetic: it is an int beyond the range
\* of float, or the evaluation has raised already
Overflows(x) == x.k \in {"huge", "OverflowError"}

\* x * y
FMul(x, y) ==
    IF Overflows(x) \/ Overflows(y) THEN Overflowed
    ELSE IF IsNaN(x) \/ IsNaN(y) THEN NaN
    ELSE LET g1 == GCD(Abs(x.n), y.d)
             g2 == GCD(Abs(y.n), x.d)
         IN  Rat((x.n \div g1) * (y.n \div g2), (x.d \div g2) * (y.d \div g1))

\* x / m for an integer constant m > 0
FDivInt(x, m) == FMul(x, Rat(1, m))

\* x + y
FAdd(x, y) ==
    IF Overflows(x) \/ Overflows(y) THEN Overflowed
    ELSE IF IsNaN(x) \/ IsNaN(y) THEN NaN
    ELSE LET g == GCD(x.d, y.d)
         IN  Rat(x.n * (y.d \div g) + y.n * (x.d \div g), (x.d \div g) * y.d)

\* x < y, x > y, x >= y: False whenever an operand is NaN
FLt(x, y) == ~IsNaN(x) /\ ~IsNaN(y) /\ x.n * y.d < y.n * x.d
FGt(x, y) == FLt(y, x)
FGe(x, y) == ~IsNaN(x) /\ ~IsNaN(y) /\ x.n * y.d >= y.n * x.d

\* Python values passed to constructors and setters: an int, a float or a str.
PyInt(n) == [t |-> "int", v |-> Rat(n, 1)]
PyFloat(n, d) == [t |-> "float", v |-> Rat(n, d)]
PyNaN == [t |-> "float", v |-> NaN]
PyHugeInt == [t |-> "int", v |-> Huge]
PyStr == [t |-> "str", v |-> Zero]
PyNone == [t |-> "none", v |-> Zero]

\* isinstance(value, int), isinstance(value, (int, float))
IsInt(value) == value.t = "int"
IsNumber(value) == value.t \in {"int", "float"}

\* float(value)
ToFloat(value) == [t |-> "float", v |-> value.v]

-----------------------------------------------------------------------------
(* models/base.py: CloudResource                                           *)

STATUS_RUNNING == "running"
STATUS_STOPPED == "stopped"

VALID_REGIONS ==
    {"us-east-1", "us-west-2", "eu-west-1", "ap-southeast-1", "ap-northeast-1"}

VALID_STATUSES == {STATUS_RUNNING, STATUS_STOPPED}

\* The result of a constructor: the exception raised ("none" if it
\* returned), the parameter whose check raised it, and the object built.
NoObj == [cls |-> "None"]
Raise(exc, at) == [exc |-> exc, at |-> at, self |-> NoObj]
Built(self) == [exc |-> "none", at |-> "none", self |-> self]

\* CloudResource.__init__: the checks it makes (Built when both pass); the
\* fields it sets are resource_id, region and status = stopped.
CloudResource_init_error(resource_id, region) ==
    IF resource_id = "" THEN Raise("ValueError", "resource_id")
    ELSE IF region \notin VALID_REGIONS THEN Raise("ValueError", "region")
    ELSE Built(NoObj)

is_running(self) == self.status = STATUS_RUNNING

\* start that reports a change also when the resource was running
CloudResource_start_always_true(self) ==
    IF self.status = STATUS_RUNNING
    THEN [ret |-> "True", self |-> self]
    ELSE [ret |-> "True", self |-> [self EXCEPT !.status = STATUS_RUNNING]]

\* CloudResource.start
CloudResource_start(self) ==
    IF self.status = STATUS_RUNNING
    THEN [ret |-> "False", self |-> self]
    ELSE [ret |-> "True", self |-> [self EXCEPT !.status = STATUS_RUNNING]]

\* CloudResource.stop
CloudResource_stop(self) ==
    IF self.status = STATUS_STOPPED
    THEN [ret |-> "False", self |-> self]
    ELSE [ret |-> "True", self |-> [self EXCEPT !.status = STATUS_STOPPED]]

\* isinstance(other, CloudResource): a resource is a record with a class
IsCloudResource(other) == "cls" \in DOMAIN other /\ other.cls # "None"

\* __eq__ that compares the resource_id only
CloudResource_eq_by_id(self, other) ==
    IF ~IsCloudResource(other) THEN "NotImplemented"
    ELSE IF self.resource_id = other.resource_id THEN "True"
    ELSE "False"

\* CloudResource.__eq__
CloudResource_eq(self, other) ==
    IF ~IsCloudResource(other) THEN "NotImplemented"
    ELSE IF self.cls = other.cls /\ self.resource_id = other.resource_id
    THEN "True"
    ELSE "False"

\* CloudResource.__hash__: the hash of the tuple (type(self), resource_id),
\* represented by the tuple hashed (equal tuples have equal hashes)
CloudResource_hash(self) == <<self.cls, self.resource_id>>

-----------------------------------------------------------------------------
(* str.lower() on the strings the model uses.                              *)

Lower(s) ==
    CASE s = "EC2" -> "ec2"
      [] s = "EC2Instance" -> "ec2instance"
      [] s = "Lambda" -> "lambda"
      [] s = "LambdaFunction" -> "lambdafunction"
      [] s = "S3" -> "s3"
      [] s = "S3Bucket" -> "s3bucket"
      [] s = "EBS" -> "ebs"
      [] s = "EBSVolume" -> "ebsvolume"
      [] s = "RDS" -> "rds"
      [] s = "RDSDatabase" -> "rdsdatabase"
      [] s = "Ec2" -> "ec2"
      [] s = "LAMBDA" -> "lambda"
      [] s = "Ebs" -> "ebs"
      [] s = "Rds" -> "rds"
      [] s = "EC2INSTANCE" -> "ec2instance"
      [] s = "LAMBDAFUNCTION" -> "lambdafunction"
      [] s = "S3BUCKET" -> "s3bucket"
      [] s = "EBSVOLUME" -> "ebsvolume"
      [] s = "RDSDATABASE" -> "rdsdatabase"
      [] s = "MySQL" -> "mysql"
      [] s = "PostgreSQL" -> "postgresql"
      [] s = "US-EAST-1" -> "us-east-1"
      [] OTHER -> s

-----------------------------------------------------------------------------
(* models/compute.py: EC2Instance                                          *)

EC2_INSTANCE_PRICING ==
    ("t2.micro" :> Rat(116, 10000)) @@ ("t2.small" :> Rat(23, 1000))
        @@ ("t2.medium" :> Rat(464, 10000))

HOURS_PER_MONTH == 730

EC2Instance_init(resource_id, region, instance_type) ==
    LET e == CloudResource_init_error(resource_id, region)
    IN  IF e.exc # "none" THEN e
        ELSE IF instance_type \notin DOMAIN EC2_INSTANCE_PRICING
        THEN Raise("ValueError", "instance_type")
        ELSE Built([cls |-> "EC2Instance", resource_id |-> resource_id,
                    region |-> region, status |-> STATUS_STOPPED,
                    instance_type |-> instance_type])

\* get_hourly_cost without the status test
EC2Instance_get_hourly_cost_always(self) ==
    EC2_INSTANCE_PRICING[self.instance_type]

EC2Instance_get_hourly_cost(self) ==
    IF ~is_running(self) THEN Zero
    ELSE EC2_INSTANCE_PRICING[self.instance_type]

EC2Instance_get_cost(self) ==
    FMul(EC2Instance_get_hourly_cost(self), Rat(HOURS_PER_MONTH, 1))

-----------------------------------------------------------------------------
(* models/compute.py: LambdaFunction                                       *)

\* 0.20
PRICE_PER_MILLION_REQUESTS == Rat(20, 100)

\* 0.0000166667 = 166667 / 10^10, kept as the two factors 166667 / 10^5 and
\* 1 / 10^5 (10^10 is beyond the integers TLC computes with)
PRICE_PER_GB_SECOND_MANTISSA == Rat(166667, 100000)
PRICE_PER_GB_SECOND_SCALE == Rat(1, 100000)

MB_PER_GB == 1024
MS_PER_SECOND == 1000
REQUESTS_PER_PRICING_UNIT == 1000000

VALID_MEMORY_SIZES == {128, 256, 512, 1024, 2048, 4096, 8192, 10240}

\* value in VALID_MEMORY_SIZES (== on numbers: 1024.0 is in the list)
InMemorySizes(value) ==
    /\ IsNumber(value)
    /\ ~IsNaN(value.v)
    /\ value.v.d = 1
    /\ value.v.n \in VALID_MEMORY_SIZES

\* value < 0 as Python evaluates it: a TypeError for a str
LtZeroRaises(value) == ~IsNumber(value)

LambdaFunction_init(resource_id, region, memory_mb, monthly_invocations, avg_duration_ms) ==
    LET e == CloudResource_init_error(resource_id, region)
    IN  IF e.exc # "none" THEN e
        ELSE IF ~InMemorySizes(memory_mb) THEN Raise("ValueError", "memory_mb")
        ELSE IF LtZeroRaises(monthly_invocations)
        THEN Raise("TypeError", "monthly_invocations")
        ELSE IF FLt(monthly_invocations.v, Zero)
        THEN Raise("ValueError", "monthly_invocations")
        ELSE IF LtZeroRaises(avg_duration_ms)
        THEN Raise("TypeError", "avg_duration_ms")
        ELSE IF FLt(avg_duration_ms.v, Zero)
        THEN Raise("ValueError", "avg_duration_ms")
        ELSE Built([cls |-> "LambdaFunction", resource_id |-> resource_id,
                    region |-> region, status |-> STATUS_RUNNING,
                    memory_mb |-> memory_mb,
                    monthly_invocations |-> monthly_invocations,
                    avg_duration_ms |-> avg_duration_ms])

\* The result of a method: what it returned or raised, and the object after.
Ret(ret, self) == [ret |-> ret, self |-> self]

LambdaFunction_start(self) == Ret("NotImplementedError", self)
LambdaFunction_stop(self) == Ret("NotImplementedError", self)

LambdaFunction_set_monthly_invocations(self, value) ==
    IF ~IsInt(value) \/ FLt(value.v, Zero) THEN Ret("ValueError", self)
    ELSE Ret("None", [self EXCEPT !.monthly_invocations = value])

LambdaFunction_set_avg_duration_ms(self, value) ==
    IF ~IsNumber(value) \/ FLt(value.v, Zero) THEN Ret("ValueError", self)
    ELSE Ret("None", [self EXCEPT !.avg_duration_ms = ToFloat(value)])

\* get_cost that bills the compute time only
LambdaFunction_get_cost_compute_only(self) ==
    LET gb_seconds ==
            FMul(FMul(FDivInt(self.memory_mb.v, MB_PER_GB),
                      FDivInt(self.avg_duration_ms.v, MS_PER_SECOND)),
                 self.monthly_invocations.v)
    IN  FMul(FMul(gb_seconds, PRICE_PER_GB_SECOND_SCALE),
             PRICE_PER_GB_SECOND_MANTISSA)

LambdaFunction_get_cost(self) ==
    LET request_cost ==
            FMul(FDivInt(self.monthly_invocations.v, REQUESTS_PER_PRICING_UNIT),
                 PRICE_PER_MILLION_REQUESTS)
        gb_seconds ==
            FMul(FMul(FDivInt(self.memory_mb.v, MB_PER_GB),
                      FDivInt(self.avg_duration_ms.v, MS_PER_SECOND)),
                 self.monthly_invocations.v)
        compute_cost ==
            FMul(FMul(gb_seconds, PRICE_PER_GB_SECOND_SCALE),
                 PRICE_PER_GB_SECOND_MANTISSA)
    IN  FAdd(request_cost, compute_cost)

-----------------------------------------------------------------------------
(* models/storage.py: S3Bucket                                             *)

S3_PRICE_PER_GB_MONTH == Rat(23, 1000)

\* S3Bucket._validate_storage_gb: the exception it raises, "none" if it
\* returns float(value)
S3Bucket_validate_storage_gb(value) ==
    IF ~IsNumber(value) \/ FLt(value.v, Zero) THEN "ValueError"
    ELSE IF Overflows(value.v) THEN "OverflowError"
    ELSE "none"

S3Bucket_init(resource_id, region, storage_gb) ==
    LET e == CloudResource_init_error(resource_id, region)
        e2 == S3Bucket_validate_storage_gb(storage_gb)
    IN  IF e.exc # "none" THEN e
        ELSE IF e2 # "none" THEN Raise(e2, "storage_gb")
        ELSE Built([cls |-> "S3Bucket", resource_id |-> resource_id,
                    region |-> region, status |-> STATUS_RUNNING,
                    storage_gb |-> ToFloat(storage_gb)])

S3Bucket_start(self) == Ret("NotImplementedError", self)
S3Bucket_stop(self) == Ret("NotImplementedError", self)

\* A storage_gb setter that stores the value before it validates it
S3Bucket_set_storage_gb_store_first(self, value) ==
    LET e == S3Bucket_validate_storage_gb(value)
    IN  Ret(IF e # "none" THEN e ELSE "None",
            [self EXCEPT !.storage_gb = ToFloat(value)])

S3Bucket_set_storage_gb(self, value) ==
    LET e == S3Bucket_validate_storage_gb(value)
    IN  IF e # "none" THEN Ret(e, self)
        ELSE Ret("None", [self EXCEPT !.storage_gb = ToFloat(value)])

S3Bucket_get_cost(self) == FMul(self.storage_gb.v, S3_PRICE_PER_GB_MONTH)

-----------------------------------------------------------------------------
(* models/storage.py: EBSVolume                                            *)

VOLUME_PRICING ==
    ("gp2" :> Rat(10, 100)) @@ ("gp3" :> Rat(8, 100)) @@ ("io1" :> Rat(125, 1000))
        @@ ("io2" :> Rat(125, 1000)) @@ ("st1" :> Rat(45, 1000))
        @@ ("sc1" :> Rat(15, 1000))

MIN_SIZE_GB == 1
MAX_SIZE_GB == 65536

\* _validate_size_gb with <= in the expansion check: the current size itself
\* is rejected
EBSVolume_validate_size_gb_strict(value, current_size) ==
    IF ~IsInt(value) THEN "TypeError"
    ELSE IF FLt(value.v, Rat(1, 1)) THEN "ValueError"
    ELSE IF FGt(value.v, Rat(65536, 1)) THEN "ValueError"
    ELSE IF current_size.t # "none" /\ ~FGt(value.v, current_size.v)
    THEN "ValueError"
    ELSE "none"

\* EBSVolume._validate_size_gb: the exception it raises, "none" if it
\* returns; current_size is PyNone for a new volume
EBSVolume_validate_size_gb(value, current_size) ==
    IF ~IsInt(value) THEN "TypeError"
    ELSE IF FLt(value.v, Rat(MIN_SIZE_GB, 1)) THEN "ValueError"
    ELSE IF FGt(value.v, Rat(MAX_SIZE_GB, 1)) THEN "ValueError"
    ELSE IF current_size.t # "none" /\ FLt(value.v, current_size.v)
    THEN "ValueError"
    ELSE "none"

EBSVolume_init(resource_id, region, volume_type, size_gb) ==
    LET e == CloudResource_init_error(resource_id, region)
        e2 == EBSVolume_validate_size_gb(size_gb, PyNone)
    IN  IF e.exc # "none" THEN e
        ELSE IF volume_type \notin DOMAIN VOLUME_PRICING
        THEN Raise("ValueError", "volume_type")
        ELSE IF e2 # "none" THEN Raise(e2, "size_gb")
        ELSE Built([cls |-> "EBSVolume", resource_id |-> resource_id,
                    region |-> region, status |-> STATUS_RUNNING,
                    volume_type |-> volume_type, size_gb |-> size_gb])

EBSVolume_start(self) == Ret("NotImplementedError", self)
\* EBSVolume without its override of stop: the inherited method runs
EBSVolume_stop_inherited(self) == CloudResource_stop(self)

EBSVolume_stop(self) == Ret("NotImplementedError", self)

EBSVolume_set_size_gb(self, value) ==
    LET e == EBSVolume_validate_size_gb(value, self.size_gb)
    IN  IF e # "none" THEN Ret(e, self)
        ELSE Ret("None", [self EXCEPT !.size_gb = value])

EBSVolume_get_cost(self) == FMul(self.size_gb.v, VOLUME_PRICING[self.volume_type])

-----------------------------------------------------------------------------
(* models/database.py: RDSDatabase                                         *)

RDS_INSTANCE_PRICING ==
    ("db.t3.micro" :> Rat(17, 1000)) @@ ("db.t3.small" :> Rat(34, 1000))
        @@ ("db.t3.medium" :> Rat(68, 1000)) @@ ("db.r5.large" :> Rat(24, 100))
        @@ ("db.r5.xlarge" :> Rat(48, 100))

STORAGE_PRICE_PER_GB == Rat(115, 1000)

SUPPORTED_ENGINES == {"mysql", "postgresql", "mariadb", "oracle", "sqlserver"}

MIN_STORAGE_GB == 20
MAX_STORAGE_GB == 65536

RDS_HOURS_PER_MONTH == 730

\* _validate_storage_gb without the expansion check
RDSDatabase_validate_storage_gb_noexpand(value, current_size) ==
    IF ~IsInt(value) THEN "TypeError"
    ELSE IF FLt(value.v, Rat(20, 1)) THEN "ValueError"
    ELSE IF FGt(value.v, Rat(65536, 1)) THEN "ValueError"
    ELSE "none"

\* RDSDatabase._validate_storage_gb
RDSDatabase_validate_storage_gb(value, current_size) ==
    IF ~IsInt(value) THEN "TypeError"
    ELSE IF FLt(value.v, Rat(MIN_STORAGE_GB, 1)) THEN "ValueError"
    ELSE IF FGt(value.v, Rat(MAX_STORAGE_GB, 1)) THEN "ValueError"
    ELSE IF current_size.t # "none" /\ FLt(value.v, current_size.v)
    THEN "ValueError"
    ELSE "none"

RDSDatabase_init(resource_id, region, instance_class, engine, storage_gb, multi_az) ==
    LET e == CloudResource_init_error(resource_id, region)
        engine_lower == Lower(engine)
        e2 == RDSDatabase_validate_storage_gb(storage_gb, PyNone)
    IN  IF e.exc # "none" THEN e
        ELSE IF instance_class \notin DOMAIN RDS_INSTANCE_PRICING
        THEN Raise("ValueError", "instance_class")
        ELSE IF engine_lower \notin SUPPORTED_ENGINES
        THEN Raise("ValueError", "engine")
        ELSE IF e2 # "none" THEN Raise(e2, "storage_gb")
        ELSE Built([cls |-> "RDSDatabase", resource_id |-> resource_id,
                    region |-> region, status |-> STATUS_STOPPED,
                    instance_class |-> instance_class, engine |-> engine_lower,
                    storage_gb |-> storage_gb, multi_az |-> multi_az])

\* A storage_gb setter that turns Multi-AZ off when it resizes
RDSDatabase_set_storage_gb_single_az(self, value) ==
    LET e == RDSDatabase_validate_storage_gb(value, self.storage_gb)
    IN  IF e # "none" THEN Ret(e, self)
        ELSE Ret("None", [self EXCEPT !.storage_gb = value, !.multi_az = FALSE])

RDSDatabase_set_storage_gb(self, value) ==
    LET e == RDSDatabase_validate_storage_gb(value, self.storage_gb)
    IN  IF e # "none" THEN Ret(e, self)
        ELSE Ret("None", [self EXCEPT !.storage_gb = value])

RDSDatabase_get_hourly_cost(self) ==
    IF ~is_running(self) THEN Zero
    ELSE LET hourly == RDS_INSTANCE_PRICING[self.instance_class]
         IN  IF self.multi_az THEN FMul(hourly, Rat(2, 1)) ELSE hourly

\* get_cost with the Multi-AZ factor applied to the sum
RDSDatabase_get_cost_double_all(self) ==
    LET hourly == IF ~is_running(self) THEN Zero
                  ELSE RDS_INSTANCE_PRICING[self.instance_class]
        total == FAdd(FMul(hourly, Rat(730, 1)),
                      FMul(self.storage_gb.v, STORAGE_PRICE_PER_GB))
    IN  IF self.multi_az THEN FMul(total, Rat(2, 1)) ELSE total

RDSDatabase_get_cost(self) ==
    LET instance_cost ==
            FMul(RDSDatabase_get_hourly_cost(self), Rat(RDS_HOURS_PER_MONTH, 1))
        storage_cost == FMul(self.storage_gb.v, STORAGE_PRICE_PER_GB)
    IN  FAdd(instance_cost, storage_cost)

-----------------------------------------------------------------------------
(* Method resolution: the method each class binds to a name.               *)

start(self) ==
    CASE self.cls = "LambdaFunction" -> LambdaFunction_start(self)
      [] self.cls = "S3Bucket" -> S3Bucket_start(self)
      [] self.cls = "EBSVolume" -> EBSVolume_start(self)
      [] OTHER -> CloudResource_start(self)

stop(self) ==
    CASE self.cls = "LambdaFunction" -> LambdaFunction_stop(self)
      [] self.cls = "S3Bucket" -> S3Bucket_stop(self)
      [] self.cls = "EBSVolume" -> EBSVolume_stop(self)
      [] OTHER -> CloudResource_stop(self)

get_cost(self) ==
    CASE self.cls = "EC2Instance" -> EC2Instance_get_cost(self)
      [] self.cls = "LambdaFunction" -> LambdaFunction_get_cost(self)
      [] self.cls = "S3Bucket" -> S3Bucket_get_cost(self)
      [] self.cls = "EBSVolume" -> EBSVolume_get_cost(self)
      [] self.cls = "RDSDatabase" -> RDSDatabase_get_cost(self)

\* The result of a query: what it returned or raised, the value returned
\* and the object after
Answer(ret, value, self) == [ret |-> ret, value |-> value, self |-> self]

\* get_cost() as a call: it raises what the arithmetic raised
get_cost_call(self) ==
    LET cost == get_cost(self)
    IN  IF cost.k = "OverflowError" THEN Answer("OverflowError", cost, self)
        ELSE Answer("float", cost, self)

\* get_info(): the dictionary of the object's fields, its type tag and its
\* monthly cost
get_info(self) ==
    LET monthly_cost == get_cost(self)
    IN  IF monthly_cost.k = "OverflowError"
        THEN Answer("OverflowError", monthly_cost, self)
        ELSE Answer("dict",
                    [resource_type |-> self.cls, monthly_cost |-> monthly_cost]
                        @@ self,
                    self)

-----------------------------------------------------------------------------
(* utils.py: the factory                                                   *)

\* _RESOURCE_CLASSES
RESOURCE_CLASSES ==
    ("ec2" :> "EC2Instance") @@ ("ec2instance" :> "EC2Instance")
        @@ ("lambda" :> "LambdaFunction") @@ ("lambdafunction" :> "LambdaFunction")
        @@ ("s3" :> "S3Bucket") @@ ("s3bucket" :> "S3Bucket")
        @@ ("ebs" :> "EBSVolume") @@ ("ebsvolume" :> "EBSVolume")
        @@ ("rds" :> "RDSDatabase") @@ ("rdsdatabase" :> "RDSDatabase")

\* create_resource(resource_type, **kwargs), the keyword arguments being
\* the fields of kw
\* create_resource that looks the tag up as it is written
create_resource_exact(resource_type, kw) ==
    LET tag == resource_type
    IN  IF tag \notin DOMAIN RESOURCE_CLASSES
        THEN Raise("ValueError", "resource_type")
        ELSE LET resource_class == RESOURCE_CLASSES[tag]
             IN  CASE resource_class = "EC2Instance" ->
                        EC2Instance_init(kw.resource_id, kw.region, kw.instance_type)
                   [] resource_class = "LambdaFunction" ->
                        LambdaFunction_init(kw.resource_id, kw.region, kw.memory_mb,
                                            kw.monthly_invocations, kw.avg_duration_ms)
                   [] resource_class = "S3Bucket" ->
                        S3Bucket_init(kw.resource_id, kw.region, kw.storage_gb)
                   [] resource_class = "EBSVolume" ->
                        EBSVolume_init(kw.resource_id, kw.region, kw.volume_type,
                                       kw.size_gb)
                   [] resource_class = "RDSDatabase" ->
                        RDSDatabase_init(kw.resource_id, kw.region, kw.instance_class,
                                         kw.engine, kw.storage_gb, kw.multi_az)

create_resource(resource_type, kw) ==
    LET tag == Lower(resource_type)
    IN  IF tag \notin DOMAIN RESOURCE_CLASSES
        THEN Raise("ValueError", "resource_type")
        ELSE LET resource_class == RESOURCE_CLASSES[tag]
             IN  CASE resource_class = "EC2Instance" ->
                        EC2Instance_init(kw.resource_id, kw.region, kw.instance_type)
                   [] resource_class = "LambdaFunction" ->
                        LambdaFunction_init(kw.resource_id, kw.region, kw.memory_mb,
                                            kw.monthly_invocations, kw.avg_duration_ms)
                   [] resource_class = "S3Bucket" ->
                        S3Bucket_init(kw.resource_id, kw.region, kw.storage_gb)
                   [] resource_class = "EBSVolume" ->
                        EBSVolume_init(kw.resource_id, kw.region, kw.volume_type,
                                       kw.size_gb)
                   [] resource_class = "RDSDatabase" ->
                        RDSDatabase_init(kw.resource_id, kw.region, kw.instance_class,
                                         kw.engine, kw.storage_gb, kw.multi_az)

\* create_resource_from_dict(data): data.pop('type') on a copy, the other
\* keys being the keyword arguments
create_resource_from_dict(data) ==
    IF "type" \notin DOMAIN data THEN Raise("KeyError", "type")
    ELSE create_resource(data.type, [k \in DOMAIN data \ {"type"} |-> data[k]])

\* What create_resources_from_list gives: the exception it raises ("none"
\* if it returns), the index its message names (NoIndex if it names none),
\* the list it returns and the number of configurations it has handed to
\* create_resource_from_dict
NoIndex == -1
ListResult(exc, index, resources, calls) ==
    [exc |-> exc, index |-> index, resources |-> resources, calls |-> calls]

\* The exceptions the loop catches and raises again with the index
Caught == {"KeyError", "ValueError", "TypeError"}

\* The loop of create_resources_from_list from the entry `index` (counted
\* from 0, as enumerate does) with the list `resources` built so far
RECURSIVE create_resources_from_list_loop(_, _, _)
create_resources_from_list_loop(data_list, index, resources) ==
    IF index >= Len(data_list) THEN ListResult("none", NoIndex, resources, index)
    ELSE LET r == create_resource_from_dict(data_list[index + 1])
         IN  IF r.exc = "none"
             THEN create_resources_from_list_loop(data_list, index + 1,
                                                  Append(resources, r.self))
             ELSE IF r.exc \in Caught
             THEN ListResult(r.exc, index, <<>>, index + 1)
             ELSE ListResult(r.exc, NoIndex, <<>>, index + 1)

\* create_resources_from_list(data_list)
create_resources_from_list(data_list) ==
    create_resources_from_list_loop(data_list, 0, <<>>)

-----------------------------------------------------------------------------
(* manager.py: AWSResourcesManager.  The dictionary _aws_resources is a    *)
(* sequence of entries [key, ref] in insertion order, ref being the heap   *)
(* address of the resource; heap maps an address to the object there.      *)

Keys(d) == {d[i].key : i \in DOMAIN d}

\* d.pop(key): the dictionary without the entry of that key
RECURSIVE Pop(_, _)
Pop(d, key) ==
    IF d = <<>> THEN <<>>
    ELSE IF Head(d).key = key THEN Tail(d)
    ELSE <<Head(d)>> \o Pop(Tail(d), key)

\* d[key]
Lookup(d, key) == (CHOOSE i \in DOMAIN d : d[i].key = key)

\* add_aws_resource without the membership test: the assignment replaces
\* the value stored under a key that is present
add_aws_resource_overwrite(d, heap, ref) ==
    IF heap[ref].resource_id \in Keys(d)
    THEN [ret |-> "None",
          dict |-> [d EXCEPT ![Lookup(d, heap[ref].resource_id)].ref = ref]]
    ELSE [ret |-> "None",
          dict |-> Append(d, [key |-> heap[ref].resource_id, ref |-> ref])]

\* add_aws_resource that rejects a resource equal to a stored one and
\* stores any other under its id
add_aws_resource_by_equality(d, heap, ref) ==
    IF \E i \in DOMAIN d : CloudResource_eq(heap[d[i].ref], heap[ref]) = "True"
    THEN [ret |-> "ValueError", dict |-> d]
    ELSE add_aws_resource_overwrite(d, heap, ref)

\* add_aws_resource that files the resource under its region
add_aws_resource_by_region(d, heap, ref) ==
    IF heap[ref].region \in Keys(d)
    THEN [ret |-> "ValueError", dict |-> d]
    ELSE [ret |-> "None",
          dict |-> Append(d, [key |-> heap[ref].region, ref |-> ref])]

add_aws_resource(d, heap, ref) ==
    IF heap[ref].resource_id \in Keys(d)
    THEN [ret |-> "ValueError", dict |-> d]
    ELSE [ret |-> "None",
          dict |-> Append(d, [key |-> heap[ref].resource_id, ref |-> ref])]

\* remove_aws_resource that reads the entry and leaves it in place
remove_aws_resource_get(d, resource_id) ==
    IF resource_id \notin Keys(d)
    THEN [ret |-> "ValueError", removed |-> 0, dict |-> d]
    ELSE [ret |-> "resource", removed |-> d[Lookup(d, resource_id)].ref,
          dict |-> d]

remove_aws_resource(d, resource_id) ==
    IF resource_id \notin Keys(d)
    THEN [ret |-> "ValueError", removed |-> 0, dict |-> d]
    ELSE [ret |-> "resource", removed |-> d[Lookup(d, resource_id)].ref,
          dict |-> Pop(d, resource_id)]

\* list(self._aws_resources.values())
get_aws_resources(d) == [i \in DOMAIN d |-> d[i].ref]

\* sum(...) over the values in order, starting from 0
RECURSIVE SumCosts(_, _, _)
SumCosts(refs, heap, acc) ==
    IF refs = <<>> THEN acc
    ELSE SumCosts(Tail(refs), heap, FAdd(acc, get_cost(heap[Head(refs)])))

\* get_total_cost that bills only the resources that are running
get_total_cost_running(d, heap) ==
    SumCosts(SelectSeq(get_aws_resources(d), LAMBDA r : is_running(heap[r])),
             heap, Zero)

get_total_cost(d, heap) == SumCosts(get_aws_resources(d), heap, Zero)

\* The values that are in keep, in order
RECURSIVE Filter(_, _)
Filter(refs, keep) ==
    IF refs = <<>> THEN <<>>
    ELSE IF Head(refs) \in keep THEN <<Head(refs)>> \o Filter(Tail(refs), keep)
    ELSE Filter(Tail(refs), keep)

\* get_resources_by_region that leaves out the resources that are stopped
get_resources_by_region_running(d, heap, region) ==
    Filter(get_aws_resources(d),
           {r \in Objs : heap[r].cls # "None" /\ heap[r].region = region
                             /\ is_running(heap[r])})

get_resources_by_region(d, heap, region) ==
    Filter(get_aws_resources(d), {r \in Objs : heap[r].cls # "None" /\ heap[r].region = region})

\* get_resources_by_type that compares the type tags as they are written
get_resources_by_type_exact(d, heap, resource_type) ==
    Filter(get_aws_resources(d), {r \in Objs : heap[r].cls = resource_type})

get_resources_by_type(d, heap, resource_type) ==
    LET resource_type_lower == Lower(resource_type)
    IN  Filter(get_aws_resources(d),
               {r \in Objs : Lower(heap[r].cls) = resource_type_lower})

\* A Counter over the values: how many of them carry each value of field f
\* A Counter that records the presence of a value instead of counting it
CountBy_presence(d, heap, f) ==
    LET present == {heap[d[i].ref][f] : i \in DOMAIN d}
    IN  [x \in present |-> 1]

CountBy(d, heap, f) ==
    LET present == {heap[d[i].ref][f] : i \in DOMAIN d}
    IN  [x \in present |-> Cardinality({i \in DOMAIN d : heap[d[i].ref][f] = x})]

\* The order of str values (by code point) on the region codes and the
\* type tags: the position of s among them in ascending order
StrRank(s) ==
    CASE s = "EBSVolume" -> 1
      [] s = "EC2Instance" -> 2
      [] s = "LambdaFunction" -> 3
      [] s = "RDSDatabase" -> 4
      [] s = "S3Bucket" -> 5
      [] s = "ap-northeast-1" -> 6
      [] s = "ap-southeast-1" -> 7
      [] s = "eu-west-1" -> 8
      [] s = "us-east-1" -> 9
      [] s = "us-west-2" -> 10

\* a < b on str values
StrLt(a, b) == StrRank(a) < StrRank(b)

\* sorted(S) for a set S of str values
RECURSIVE Sorted(_)
Sorted(S) ==
    IF S = {} THEN <<>>
    ELSE LET least == CHOOSE x \in S : \A y \in S \ {x} : StrLt(x, y)
         IN  <<least>> \o Sorted(S \ {least})

\* sorted(...) of the extracted values without the set(...) around them
RECURSIVE SortedList(_)
SortedList(l) ==
    IF l = <<>> THEN <<>>
    ELSE LET i == CHOOSE j \in DOMAIN l : \A k \in DOMAIN l : ~StrLt(l[k], l[j])
         IN  <<l[i]>> \o SortedList([k \in 1..(Len(l) - 1) |->
                                        IF k < i THEN l[k] ELSE l[k + 1]])

get_unique_values_keep_duplicates(d, heap, f) ==
    SortedList([i \in DOMAIN d |-> heap[d[i].ref][f]])

\* _get_unique_values(extractor), the extractor reading the field f
get_unique_values(d, heap, f) ==
    Sorted({heap[d[i].ref][f] : i \in DOMAIN d})

get_regions(d, heap) == get_unique_values(d, heap, "region")

get_resource_types(d, heap) == get_unique_values(d, heap, "cls")

generate_report(d, heap) ==
    [total_cost |-> SumCosts(get_aws_resources(d), heap, Zero),
     total_count |-> Len(get_aws_resources(d)),
     resources |-> get_aws_resources(d),
     resources_by_region |-> CountBy(d, heap, "region"),
     resources_by_type |-> CountBy(d, heap, "cls")]

-----------------------------------------------------------------------------
(* The caller: the configurations it constructs resources from (as in      *)
(* main.py's create_sample_resources, with invalid ones added) and the     *)
(* values it passes to the setters.                                        *)

Configs == <<
    [type |-> "ec2", resource_id |-> "a", region |-> "us-east-1",
     instance_type |-> "t2.small"],
    [type |-> "EC2Instance", resource_id |-> "b", region |-> "eu-west-1",
     instance_type |-> "t2.micro"],
    [type |-> "lambda", resource_id |-> "a", region |-> "us-east-1",
     memory_mb |-> PyInt(1024), monthly_invocations |-> PyInt(5000000),
     avg_duration_ms |-> PyInt(200)],
    [type |-> "s3", resource_id |-> "b", region |-> "us-west-2",
     storage_gb |-> PyInt(500)],
    [type |-> "EBS", resource_id |-> "a", region |-> "us-east-1",
     volume_type |-> "gp3", size_gb |-> PyInt(100)],
    [type |-> "rds", resource_id |-> "b", region |-> "ap-northeast-1",
     instance_class |-> "db.r5.large", engine |-> "PostgreSQL",
     storage_gb |-> PyInt(200), multi_az |-> TRUE],
    [type |-> "RDSDatabase", resource_id |-> "a", region |-> "ap-northeast-1",
     instance_class |-> "db.t3.micro", engine |-> "mysql",
     storage_gb |-> PyInt(20), multi_az |-> FALSE],
    [type |-> "ec2", resource_id |-> "", region |-> "us-east-1",
     instance_type |-> "t2.small"],
    [type |-> "ec2", resource_id |-> "a", region |-> "US-EAST-1",
     instance_type |-> "t2.small"],
    [type |-> "ec2", resource_id |-> "a", region |-> "us-east-1",
     instance_type |-> "t2.large"],
    [type |-> "lambda", resource_id |-> "a", region |-> "us-east-1",
     memory_mb |-> PyInt(100), monthly_invocations |-> PyInt(0),
     avg_duration_ms |-> PyInt(0)],
    [type |-> "s3", resource_id |-> "b", region |-> "us-west-2",
     storage_gb |-> PyFloat(-1, 2)],
    [type |-> "ebs", resource_id |-> "a", region |-> "us-east-1",
     volume_type |-> "gp3", size_gb |-> PyInt(0)],
    [type |-> "ebs", resource_id |-> "a", region |-> "us-east-1",
     volume_type |-> "gp3", size_gb |-> PyFloat(201, 2)],
    [type |-> "rds", resource_id |-> "b", region |-> "ap-northeast-1",
     instance_class |-> "db.r5.large", engine |-> "mongodb",
     storage_gb |-> PyInt(200), multi_az |-> TRUE],
    [type |-> "rds", resource_id |-> "b", region |-> "ap-northeast-1",
     instance_class |-> "db.r5.large", engine |-> "mysql",
     storage_gb |-> PyInt(19), multi_az |-> FALSE],
    [type |-> "dynamodb", resource_id |-> "a", region |-> "us-east-1"],
    [type |-> "ec2", resource_id |-> "a", region |-> "eu-west-1",
     instance_type |-> "t2.medium"]
>>

ResourceIds == {"a", "b", "c"}

InvocationValues == {PyInt(-1), PyInt(0), PyInt(5000000), PyFloat(5, 2)}
DurationValues == {PyFloat(-1, 1), PyInt(0), PyInt(200), PyStr}
S3StorageValues == {PyFloat(-1, 2), PyInt(0), PyInt(500), PyNaN, PyStr}
SizeValues ==
    {PyInt(0), PyInt(1), PyInt(100), PyInt(500), PyInt(65536), PyInt(65537),
     PyFloat(1001, 2)}
RdsStorageValues ==
    {PyInt(19), PyInt(20), PyInt(200), PyInt(65536), PyInt(65537),
     PyFloat(601, 2)}

-----------------------------------------------------------------------------
(* The state.                                                              *)

VARIABLES
    heap,           \* address -> the object there (NoObj before construction)
    aws_resources,  \* the Manager's dictionary, in insertion order
    owned,          \* the addresses added to the Manager and not removed since
    last            \* the last call: what was called, on what, with what result

vars == <<heap, aws_resources, owned, last>>

Call(op, ref, key, arg, ret) ==
    [op |-> op, ref |-> ref, key |-> key, arg |-> arg, ret |-> ret]

Init ==
    /\ heap = [o \in Objs |-> NoObj]
    /\ aws_resources = <<>>
    /\ owned = {}
    /\ last = Call("init", 0, "", PyNone, "None")

Live == {o \in Objs : heap[o].cls # "None"}

\* r = create_resource_from_dict(Configs[i]), the caller keeping r at address o
Construct(o, i) ==
    /\ heap[o].cls = "None"
    /\ \A p \in Objs : p < o => heap[p].cls # "None"
    /\ LET r == create_resource_from_dict(Configs[i])
       IN  /\ heap' = IF r.exc = "none" THEN [heap EXCEPT ![o] = r.self] ELSE heap
           /\ last' = Call("construct", IF r.exc = "none" THEN o ELSE 0, "",
                           PyInt(i), r.exc)
    /\ UNCHANGED <<aws_resources, owned>>

\* The call of a method m(self) on the object at o
Method(o, name, arg, r) ==
    /\ heap' = [heap EXCEPT ![o] = r.self]
    /\ last' = Call(name, o, "", arg, r.ret)
    /\ UNCHANGED <<aws_resources, owned>>

Start(o) == o \in Live /\ Method(o, "start", PyNone, start(heap[o]))

Stop(o) == o \in Live /\ Method(o, "stop", PyNone, stop(heap[o]))

SetMonthlyInvocations(o, v) ==
    /\ o \in Live /\ heap[o].cls = "LambdaFunction"
    /\ Method(o, "LambdaFunction.monthly_invocations", v,
              LambdaFunction_set_monthly_invocations(heap[o], v))

SetAvgDurationMs(o, v) ==
    /\ o \in Live /\ heap[o].cls = "LambdaFunction"
    /\ Method(o, "LambdaFunction.avg_duration_ms", v,
              LambdaFunction_set_avg_duration_ms(heap[o], v))

SetS3StorageGb(o, v) ==
    /\ o \in Live /\ heap[o].cls = "S3Bucket"
    /\ Method(o, "S3Bucket.storage_gb", v, S3Bucket_set_storage_gb(heap[o], v))

SetSizeGb(o, v) ==
    /\ o \in Live /\ heap[o].cls = "EBSVolume"
    /\ Method(o, "EBSVolume.size_gb", v, EBSVolume_set_size_gb(heap[o], v))

SetRdsStorageGb(o, v) ==
    /\ o \in Live /\ heap[o].cls = "RDSDatabase"
    /\ Method(o, "RDSDatabase.storage_gb", v,
              RDSDatabase_set_storage_gb(heap[o], v))

\* manager.add_aws_resource(the object at o)
Add(o) ==
    /\ o \in Live
    /\ LET r == add_aws_resource(aws_resources, heap, o)
       IN  /\ aws_resources' = r.dict
           /\ owned' = IF r.ret = "None" THEN owned \cup {o} ELSE owned
           /\ last' = Call("add", o, heap[o].resource_id, PyNone, r.ret)
    /\ UNCHANGED heap

\* manager.remove_aws_resource(resource_id)
Remove(resource_id) ==
    /\ LET r == remove_aws_resource(aws_resources, resource_id)
       IN  /\ aws_resources' = r.dict
           /\ owned' = IF r.ret = "resource" THEN owned \ {r.removed} ELSE owned
           /\ last' = Call("remove", r.removed, resource_id, PyNone, r.ret)
    /\ UNCHANGED heap

Next ==
    \/ \E o \in Objs, i \in DOMAIN Configs : Construct(o, i)
    \/ \E o \in Objs : Start(o)
    \/ \E o \in Objs : Stop(o)
    \/ \E o \in Objs, v \in InvocationValues : SetMonthlyInvocations(o, v)
    \/ \E o \in Objs, v \in DurationValues : SetAvgDurationMs(o, v)
    \/ \E o \in Objs, v \in S3StorageValues : SetS3StorageGb(o, v)
    \/ \E o \in Objs, v \in SizeValues : SetSizeGb(o, v)
    \/ \E o \in Objs, v \in RdsStorageValues : SetRdsStorageGb(o, v)
    \/ \E o \in Objs : Add(o)
    \/ \E resource_id \in ResourceIds : Remove(resource_id)

Spec == Init /\ [][Next]_vars

-----------------------------------------------------------------------------
(* The constructors called directly, with every combination of valid and   *)
(* invalid arguments, and the factory called with the spellings of the     *)
(* type tags.                                                              *)

CtorResourceIds == {"a", ""}
CtorRegions == {"us-east-1", "US-EAST-1"}
CtorInstanceTypes == {"t2.small", "t2.large"}
CtorMemorySizes == {PyInt(1024), PyInt(100)}
CtorInvocations == {PyInt(-1), PyInt(0), PyFloat(5, 2), PyStr}
CtorDurations == {PyFloat(-1, 1), PyInt(200), PyStr}
CtorS3Storage == {PyFloat(-1, 2), PyInt(500), PyStr}
CtorVolumeTypes == {"gp3", "gp9"}
CtorSizes == {PyInt(0), PyInt(100), PyInt(65537), PyFloat(201, 2)}
CtorInstanceClasses == {"db.t3.micro", "db.t9.micro"}
CtorEngines == {"MySQL", "mongodb"}
CtorRdsStorage == {PyInt(19), PyInt(200), PyInt(65537), PyFloat(601, 2)}

\* r = cls(**args), the caller keeping the object at address o; the call
\* recorded holds the arguments and the check that raised
Constructed(o, args, r) ==
    /\ heap[o].cls = "None"
    /\ \A p \in Objs : p < o => heap[p].cls # "None"
    /\ heap' = IF r.exc = "none" THEN [heap EXCEPT ![o] = r.self] ELSE heap
    /\ last' = Call("construct", IF r.exc = "none" THEN o ELSE 0, "", args, r.exc)
                    @@ ("at" :> r.at)
    /\ UNCHANGED <<aws_resources, owned>>

NewEC2Instance(o, resource_id, region, instance_type) ==
    Constructed(o, [cls |-> "EC2Instance", resource_id |-> resource_id,
                    region |-> region, instance_type |-> instance_type],
                EC2Instance_init(resource_id, region, instance_type))

NewLambdaFunction(o, resource_id, region, memory_mb, monthly_invocations, avg_duration_ms) ==
    Constructed(o, [cls |-> "LambdaFunction", resource_id |-> resource_id,
                    region |-> region, memory_mb |-> memory_mb,
                    monthly_invocations |-> monthly_invocations,
                    avg_duration_ms |-> avg_duration_ms],
                LambdaFunction_init(resource_id, region, memory_mb,
                                    monthly_invocations, avg_duration_ms))

NewS3Bucket(o, resource_id, region, storage_gb) ==
    Constructed(o, [cls |-> "S3Bucket", resource_id |-> resource_id,
                    region |-> region, storage_gb |-> storage_gb],
                S3Bucket_init(resource_id, region, storage_gb))

NewEBSVolume(o, resource_id, region, volume_type, size_gb) ==
    Constructed(o, [cls |-> "EBSVolume", resource_id |-> resource_id,
                    region |-> region, volume_type |-> volume_type,
                    size_gb |-> size_gb],
                EBSVolume_init(resource_id, region, volume_type, size_gb))

NewRDSDatabase(o, resource_id, region, instance_class, engine, storage_gb, multi_az) ==
    Constructed(o, [cls |-> "RDSDatabase", resource_id |-> resource_id,
                    region |-> region, instance_class |-> instance_class,
                    engine |-> engine, storage_gb |-> storage_gb,
                    multi_az |-> multi_az],
                RDSDatabase_init(resource_id, region, instance_class, engine,
                                 storage_gb, multi_az))

\* Keyword arguments that each constructor accepts
SampleKwargs ==
    ("EC2Instance" :> [resource_id |-> "a", region |-> "us-east-1",
                       instance_type |-> "t2.small"])
    @@ ("LambdaFunction" :> [resource_id |-> "a", region |-> "us-east-1",
                             memory_mb |-> PyInt(1024),
                             monthly_invocations |-> PyInt(5000000),
                             avg_duration_ms |-> PyInt(200)])
    @@ ("S3Bucket" :> [resource_id |-> "a", region |-> "us-west-2",
                       storage_gb |-> PyInt(500)])
    @@ ("EBSVolume" :> [resource_id |-> "a", region |-> "us-east-1",
                        volume_type |-> "gp3", size_gb |-> PyInt(100)])
    @@ ("RDSDatabase" :> [resource_id |-> "a", region |-> "ap-northeast-1",
                          instance_class |-> "db.r5.large",
                          engine |-> "PostgreSQL", storage_gb |-> PyInt(200),
                          multi_az |-> TRUE])

\* The calls of create_resource: the tag as the caller writes it, with the
\* keyword arguments of the variant the caller means
FactoryCalls ==
    {<<t, SampleKwargs["EC2Instance"]>> :
        t \in {"ec2", "EC2", "Ec2", "ec2instance", "EC2Instance", "EC2INSTANCE",
               "dynamodb", "ec2_instance", ""}}
    \cup {<<t, SampleKwargs["LambdaFunction"]>> :
        t \in {"lambda", "LAMBDA", "Lambda", "lambdafunction", "LambdaFunction",
               "LAMBDAFUNCTION"}}
    \cup {<<t, SampleKwargs["S3Bucket"]>> :
        t \in {"s3", "S3", "s3bucket", "S3Bucket", "S3BUCKET"}}
    \cup {<<t, SampleKwargs["EBSVolume"]>> :
        t \in {"ebs", "EBS", "Ebs", "ebsvolume", "EBSVolume", "EBSVOLUME"}}
    \cup {<<t, SampleKwargs["RDSDatabase"]>> :
        t \in {"rds", "RDS", "Rds", "rdsdatabase", "RDSDatabase", "RDSDATABASE"}}

\* r = create_resource(resource_type, **kw), the caller keeping r at o
CreateResource(o, resource_type, kw) ==
    /\ heap[o].cls = "None"
    /\ \A p \in Objs : p < o => heap[p].cls # "None"
    /\ LET r == create_resource(resource_type, kw)
       IN  /\ heap' = IF r.exc = "none" THEN [heap EXCEPT ![o] = r.self] ELSE heap
           /\ last' = Call("create_resource", IF r.exc = "none" THEN o ELSE 0, "",
                           [resource_type |-> resource_type, kwargs |-> kw], r.exc)
                           @@ ("at" :> r.at)
    /\ UNCHANGED <<aws_resources, owned>>

CtorNext ==
    \/ \E o \in Objs, id \in CtorResourceIds, g \in CtorRegions,
          t \in CtorInstanceTypes : NewEC2Instance(o, id, g, t)
    \/ \E o \in Objs, id \in CtorResourceIds, g \in CtorRegions,
          m \in CtorMemorySizes, n \in CtorInvocations, ms \in CtorDurations :
            NewLambdaFunction(o, id, g, m, n, ms)
    \/ \E o \in Objs, id \in CtorResourceIds, g \in CtorRegions,
          gb \in CtorS3Storage : NewS3Bucket(o, id, g, gb)
    \/ \E o \in Objs, id \in CtorResourceIds, g \in CtorRegions,
          t \in CtorVolumeTypes, gb \in CtorSizes : NewEBSVolume(o, id, g, t, gb)
    \/ \E o \in Objs, id \in CtorResourceIds, g \in CtorRegions,
          c \in CtorInstanceClasses, e \in CtorEngines, gb \in CtorRdsStorage,
          az \in BOOLEAN : NewRDSDatabase(o, id, g, c, e, gb, az)
    \/ \E o \in Objs, c \in FactoryCalls : CreateResource(o, c[1], c[2])

CtorSpec == Init /\ [][CtorNext]_vars

-----------------------------------------------------------------------------
(* create_resources_from_list called with short lists of configurations:   *)
(* valid ones, and ones that lack the 'type' key, carry an unknown tag or  *)
(* an argument the constructor refuses.                                    *)

MaxListLen == 3

ListConfigs ==
    { [type |-> "ec2", resource_id |-> "a", region |-> "us-east-1",
       instance_type |-> "t2.small"],
      [type |-> "S3Bucket", resource_id |-> "b", region |-> "us-west-2",
       storage_gb |-> PyInt(500)],
      [type |-> "EBS", resource_id |-> "c", region |-> "eu-west-1",
       volume_type |-> "gp3", size_gb |-> PyInt(100)],
      [resource_id |-> "a", region |-> "us-east-1", instance_type |-> "t2.small"],
      [type |-> "dynamodb", resource_id |-> "a", region |-> "us-east-1",
       instance_type |-> "t2.small"],
      [type |-> "ec2", resource_id |-> "a", region |-> "US-EAST-1",
       instance_type |-> "t2.small"],
      [type |-> "ebs", resource_id |-> "c", region |-> "eu-west-1",
       volume_type |-> "gp3", size_gb |-> PyFloat(201, 2)],
      [type |-> "s3", resource_id |-> "b", region |-> "us-west-2",
       storage_gb |-> PyHugeInt] }

DataLists == UNION {[1..n -> ListConfigs] : n \in 0..MaxListLen}

\* resources = create_resources_from_list(data_list); the call recorded
\* holds the list returned, the index the error names and the number of
\* configurations processed
CreateResourcesFromList(data_list) ==
    /\ LET r == create_resources_from_list(data_list)
       IN  last' = Call("create_resources_from_list", 0, "", data_list, r.exc)
                       @@ [index |-> r.index, value |-> r.resources,
                           calls |-> r.calls]
    /\ UNCHANGED <<heap, aws_resources, owned>>

ListNext == \E data_list \in DataLists : CreateResourcesFromList(data_list)

ListSpec == Init /\ [][ListNext]_vars

-----------------------------------------------------------------------------
(* The caller also reads: get_cost() and get_info() of the resources it    *)
(* holds and the queries of the Manager; and it sets an invocation count   *)
(* that is beyond the range of float.                                      *)

QueryRegions == {"us-east-1", "ap-northeast-1", "US-EAST-1"}
QueryTypes == {"ec2instance", "RDSDatabase", "s3"}

\* A call of a query of the resource at o
Asked(o, name, r) ==
    /\ heap' = [heap EXCEPT ![o] = r.self]
    /\ last' = Call(name, o, "", PyNone, r.ret) @@ ("value" :> r.value)
    /\ UNCHANGED <<aws_resources, owned>>

GetCost(o) == o \in Live /\ Asked(o, "get_cost", get_cost_call(heap[o]))

GetInfo(o) == o \in Live /\ Asked(o, "get_info", get_info(heap[o]))

\* A call of a query of the Manager: none of them assigns anything
ManagerAsked(name, arg, ret, value) ==
    /\ last' = Call(name, 0, "", arg, ret) @@ ("value" :> value)
    /\ UNCHANGED <<heap, aws_resources, owned>>

GetAwsResources ==
    ManagerAsked("get_aws_resources", PyNone, "list",
                 get_aws_resources(aws_resources))

GetTotalCost ==
    LET total == get_total_cost(aws_resources, heap)
    IN  ManagerAsked("get_total_cost", PyNone,
                     IF total.k = "OverflowError" THEN "OverflowError" ELSE "float",
                     total)

GetResourcesByRegion(region) ==
    ManagerAsked("get_resources_by_region", region, "list",
                 get_resources_by_region(aws_resources, heap, region))

GetResourcesByType(resource_type) ==
    ManagerAsked("get_resources_by_type", resource_type, "list",
                 get_resources_by_type(aws_resources, heap, resource_type))

GetRegions ==
    ManagerAsked("get_regions", PyNone, "list", get_regions(aws_resources, heap))

GetResourceTypes ==
    ManagerAsked("get_resource_types", PyNone, "list",
                 get_resource_types(aws_resources, heap))

GenerateReport ==
    LET report == generate_report(aws_resources, heap)
    IN  ManagerAsked("generate_report", PyNone,
                     IF report.total_cost.k = "OverflowError"
                     THEN "OverflowError" ELSE "dict",
                     report)

QueryNext ==
    \/ Next
    \/ \E o \in Objs : SetMonthlyInvocations(o, PyHugeInt)
    \/ \E o \in Objs : GetCost(o)
    \/ \E o \in Objs : GetInfo(o)
    \/ GetAwsResources
    \/ GetTotalCost
    \/ \E region \in QueryRegions : GetResourcesByRegion(region)
    \/ \E resource_type \in QueryTypes : GetResourcesByType(resource_type)
    \/ GetRegions
    \/ GetResourceTypes
    \/ GenerateReport

QuerySpec == Init /\ [][QueryNext]_vars

-----------------------------------------------------------------------------
(* Helpers of the properties.                                              *)

Elems(seq) == {seq[i] : i \in DOMAIN seq}

\* The sum of the current costs of a set of resources
RECURSIVE CostOfSet(_)
CostOfSet(S) ==
    IF S = {} THEN Zero
    ELSE LET r == CHOOSE x \in S : TRUE
         IN  FAdd(get_cost(heap[r]), CostOfSet(S \ {r}))

TypeTags ==
    {"EC2Instance", "LambdaFunction", "S3Bucket", "EBSVolume", "RDSDatabase"}

\* The field that holds the capacity of a block volume or a database
Capacity(self) ==
    IF self.cls = "EBSVolume" THEN self.size_gb ELSE self.storage_gb

IsCapacitySetter(op) == op \in {"EBSVolume.size_gb", "RDSDatabase.storage_gb"}

Switchable == {"EC2Instance", "RDSDatabase"}
AlwaysOn == {"LambdaFunction", "S3Bucket", "EBSVolume"}

-----------------------------------------------------------------------------
(* Properties.                                                             *)

\* C1: in every state the Manager's total cost is the sum of the current
\* costs of exactly the resources added and not removed since, whatever was
\* done to them directly in between, and it is 0 when the Manager owns none.
C1_TotalCostIsSumOverOwned ==
    /\ get_total_cost(aws_resources, heap) = CostOfSet(owned)
    /\ owned = {} => get_total_cost(aws_resources, heap) = Zero

\* A registered resource was stopped through the caller's reference while
\* the Manager owned two resources.
C1_Witness ==
    /\ last.op = "stop" /\ last.ret = "True"
    /\ last.ref \in owned
    /\ Cardinality(owned) = 2

\* C2: add_aws_resource(r) fails when r.resource_id is a key of the
\* dictionary and then leaves the dictionary as it was; otherwise it appends
\* the entry r.resource_id -> r and changes no other entry.
C2_AddRejectsDuplicateId ==
    [][last'.op = "add" =>
        LET rid == heap[last'.ref].resource_id
        IN  IF rid \in Keys(aws_resources)
            THEN last'.ret = "ValueError" /\ aws_resources' = aws_resources
            ELSE /\ last'.ret = "None"
                 /\ aws_resources' =
                        Append(aws_resources, [key |-> rid, ref |-> last'.ref])
    ]_vars

\* An add was rejected for an object other than the one registered under
\* its id.
C2_Witness ==
    /\ last.op = "add" /\ last.ret = "ValueError"
    /\ last.ref \notin owned
    /\ last.key \in Keys(aws_resources)

\* C3: remove_aws_resource(id) fails and leaves the dictionary as it was
\* when id is absent; otherwise it returns the resource registered under
\* id, which then appears in no query of the Manager, the other entries and
\* every object stay as they were, and a resource of that id can be added.
C3_RemoveReturnsAndForgets ==
    [][last'.op = "remove" =>
        LET id == last'.key
        IN  IF id \notin Keys(aws_resources)
            THEN last'.ret = "ValueError" /\ aws_resources' = aws_resources
            ELSE LET r == aws_resources[Lookup(aws_resources, id)].ref
                     rest == SelectSeq(aws_resources, LAMBDA e : e.key # id)
                 IN  /\ last'.ret = "resource" /\ last'.ref = r
                     /\ aws_resources' = rest
                     /\ heap' = heap
                     /\ r \notin Elems(get_aws_resources(aws_resources'))
                     /\ \A g \in VALID_REGIONS :
                            r \notin Elems(get_resources_by_region(aws_resources', heap', g))
                     /\ \A t \in TypeTags :
                            r \notin Elems(get_resources_by_type(aws_resources', heap', t))
                     /\ r \notin Elems(generate_report(aws_resources', heap').resources)
                     /\ generate_report(aws_resources', heap').total_count
                            = Len(aws_resources) - 1
                     /\ get_total_cost(aws_resources', heap')
                            = CostOfSet(Elems(get_aws_resources(aws_resources)) \ {r})
                     /\ \A o \in Live : heap[o].resource_id = id =>
                            add_aws_resource(aws_resources', heap', o).ret = "None"
    ]_vars

\* A resource was removed while another one stayed registered.
C3_Witness ==
    /\ last.op = "remove" /\ last.ret = "resource"
    /\ Len(aws_resources) = 1
    /\ last.ref \notin owned

\* C4: the setters of EBSVolume.size_gb and RDSDatabase.storage_gb reject
\* every value below the current one, leaving the field as it was, and
\* accept every int v with current <= v <= 65536, the field then being v.
C4_CapacitySetter ==
    [][IsCapacitySetter(last'.op) =>
        LET cur == Capacity(heap[last'.ref])
            v == last'.arg
        IN  /\ FLt(v.v, cur.v) =>
                /\ last'.ret # "None"
                /\ Capacity(heap'[last'.ref]) = cur
            /\ (IsInt(v) /\ FGe(v.v, cur.v) /\ FGe(Rat(65536, 1), v.v)) =>
                /\ last'.ret = "None"
                /\ Capacity(heap'[last'.ref]) = v
    ]_vars

\* A database refused a storage size that is within [20, 65536]: it is
\* below the current one.
C4_Witness ==
    /\ last.op = "RDSDatabase.storage_gb" /\ last.ret = "ValueError"
    /\ IsInt(last.arg)
    /\ FGe(last.arg.v, Rat(20, 1)) /\ FGe(Rat(65536, 1), last.arg.v)

\* C5: the capacity of a block volume or database never decreases from one
\* state to the next, and is always an int within [1, 65536] (size_gb) or
\* [20, 65536] (storage_gb).
C5_CapacityInRange ==
    \A o \in Live :
        /\ heap[o].cls = "EBSVolume" =>
            /\ IsInt(heap[o].size_gb)
            /\ FGe(heap[o].size_gb.v, Rat(1, 1))
            /\ FGe(Rat(65536, 1), heap[o].size_gb.v)
        /\ heap[o].cls = "RDSDatabase" =>
            /\ IsInt(heap[o].storage_gb)
            /\ FGe(heap[o].storage_gb.v, Rat(20, 1))
            /\ FGe(Rat(65536, 1), heap[o].storage_gb.v)

\* C5 (whole): the capacity stays within its range in every state and no
\* step of any operation lowers it.
C5_CapacityMonotonic ==
    /\ []C5_CapacityInRange
    /\ [][\A o \in Live :
            heap[o].cls \in {"EBSVolume", "RDSDatabase"} =>
                FGe(Capacity(heap'[o]).v, Capacity(heap[o]).v)]_vars

\* A volume that has been grown to the maximum refused a smaller size.
C5_Witness ==
    /\ last.op = "EBSVolume.size_gb" /\ last.ret = "ValueError"
    /\ heap[last.ref].size_gb = PyInt(65536)
    /\ last.arg = PyInt(500)

\* C6: EC2Instance and RDSDatabase are stopped when constructed; start()
\* returns True and sets running iff the resource was stopped, and returns
\* False and changes nothing otherwise; stop() likewise with the roles of
\* the two statuses exchanged; the status is always running or stopped.
C6_StatusValid ==
    \A o \in Live : heap[o].status \in VALID_STATUSES

C6_StartStopToggle ==
    /\ []C6_StatusValid
    /\ [][/\ (last'.op = "construct" /\ last'.ret = "none"
                /\ heap'[last'.ref].cls \in Switchable) =>
                    heap'[last'.ref].status = STATUS_STOPPED
          /\ (last'.op = "start" /\ heap[last'.ref].cls \in Switchable) =>
                IF heap[last'.ref].status = STATUS_STOPPED
                THEN /\ last'.ret = "True"
                     /\ heap'[last'.ref].status = STATUS_RUNNING
                ELSE /\ last'.ret = "False"
                     /\ heap'[last'.ref] = heap[last'.ref]
          /\ (last'.op = "stop" /\ heap[last'.ref].cls \in Switchable) =>
                IF heap[last'.ref].status = STATUS_RUNNING
                THEN /\ last'.ret = "True"
                     /\ heap'[last'.ref].status = STATUS_STOPPED
                ELSE /\ last'.ret = "False"
                     /\ heap'[last'.ref] = heap[last'.ref]
        ]_vars

\* start() on an instance that is running returned False.
C6_Witness ==
    /\ last.op = "start" /\ last.ret = "False"
    /\ heap[last.ref].cls = "EC2Instance"
    /\ heap[last.ref].status = STATUS_RUNNING

\* C7: on a LambdaFunction, S3Bucket or EBSVolume every start() and stop()
\* raises NotImplementedError and leaves the object as it was, and the
\* status of such a resource is running in every state.
C7_AlwaysRunning ==
    \A o \in Live : heap[o].cls \in AlwaysOn => heap[o].status = STATUS_RUNNING

C7_NoLifecycle ==
    /\ []C7_AlwaysRunning
    /\ [][(last'.op \in {"start", "stop"} /\ heap[last'.ref].cls \in AlwaysOn) =>
            /\ last'.ret = "NotImplementedError"
            /\ heap'[last'.ref] = heap[last'.ref]
        ]_vars

\* stop() was called on a block volume.
C7_Witness ==
    /\ last.op = "stop"
    /\ heap[last.ref].cls = "EBSVolume"
    /\ heap[last.ref].status = STATUS_RUNNING

\* C8: the cost of every constructed resource is >= 0 in every state.
C8_CostNonNegative ==
    \A o \in Live : FGe(get_cost(heap[o]), Zero)

\* C9: the cost of an EC2Instance is its hourly rate times 730 when it is
\* running and 0 when it is stopped, in every state, so that it follows
\* each start() and stop(); a running t2.small costs 16.79.
C9_Ec2Cost ==
    \A o \in Live : heap[o].cls = "EC2Instance" =>
        /\ heap[o].status = STATUS_STOPPED => get_cost(heap[o]) = Zero
        /\ heap[o].status = STATUS_RUNNING =>
            /\ heap[o].instance_type = "t2.micro" =>
                    get_cost(heap[o]) = Rat(116 * 730, 10000)
            /\ heap[o].instance_type = "t2.small" =>
                    /\ get_cost(heap[o]) = Rat(23 * 730, 1000)
                    /\ get_cost(heap[o]) = Rat(1679, 100)
            /\ heap[o].instance_type = "t2.medium" =>
                    get_cost(heap[o]) = Rat(464 * 730, 10000)

\* start() returned True on a t2.small, which is running now.
C9_Witness ==
    /\ last.op = "start" /\ last.ret = "True"
    /\ heap[last.ref].cls = "EC2Instance"
    /\ heap[last.ref].instance_type = "t2.small"

\* C10: the cost of an RDSDatabase is instance_cost + storage_gb x 0.115,
\* instance_cost being 0 when stopped and the hourly rate x 730 when
\* running, doubled iff multi_az; a stopped database costs storage_gb x
\* 0.115 whatever multi_az is; db.r5.large (0.24), multi_az, 200 GB,
\* running costs 373.40.
RdsStorageCost(self) == Rat(self.storage_gb.v.n * 115, 1000)

RdsInstanceCost(self) ==
    LET cents == CASE self.instance_class = "db.t3.micro" -> 17
                   [] self.instance_class = "db.t3.small" -> 34
                   [] self.instance_class = "db.t3.medium" -> 68
                   [] self.instance_class = "db.r5.large" -> 240
                   [] self.instance_class = "db.r5.xlarge" -> 480
    IN  Rat(cents * 730 * (IF self.multi_az THEN 2 ELSE 1), 1000)

C10_RdsCost ==
    \A o \in Live : heap[o].cls = "RDSDatabase" =>
        /\ heap[o].status = STATUS_STOPPED =>
                get_cost(heap[o]) = RdsStorageCost(heap[o])
        /\ heap[o].status = STATUS_RUNNING =>
                get_cost(heap[o])
                    = FAdd(RdsInstanceCost(heap[o]), RdsStorageCost(heap[o]))
        /\ (heap[o].status = STATUS_RUNNING /\ heap[o].multi_az
                /\ heap[o].instance_class = "db.r5.large"
                /\ heap[o].storage_gb = PyInt(200)) =>
                get_cost(heap[o]) = Rat(37340, 100)

\* A Multi-AZ db.r5.large with 200 GB is running, and another Multi-AZ
\* database is stopped.
C10_Witness ==
    \E o, p \in Live :
        /\ heap[o].cls = "RDSDatabase" /\ heap[o].multi_az
        /\ heap[o].instance_class = "db.r5.large"
        /\ heap[o].storage_gb = PyInt(200)
        /\ heap[o].status = STATUS_RUNNING
        /\ heap[p].cls = "RDSDatabase" /\ heap[p].multi_az
        /\ heap[p].status = STATUS_STOPPED

\* C11: the cost of a LambdaFunction is, in every state and so for the
\* current values of monthly_invocations and avg_duration_ms,
\* (monthly_invocations / 1,000,000) x 0.20 + (memory_mb / 1024) x
\* (avg_duration_ms / 1000) x monthly_invocations x 0.0000166667; it is 0
\* when monthly_invocations is 0; for 1024 MB, 5,000,000 invocations and
\* 200 ms it is 1.00 + 16.6667.
\* The formula per million invocations: 0.20 + (memory_mb / 1024) x
\* avg_duration_ms x 0.0166667.
LambdaCostPerMillion(self) ==
    FAdd(Rat(1, 5),
         FMul(FMul(FMul(self.memory_mb.v, Rat(1, 1024)), self.avg_duration_ms.v),
              Rat(166667, 10000000)))

C11_LambdaCost ==
    \A o \in Live : heap[o].cls = "LambdaFunction" =>
        /\ get_cost(heap[o])
              = FMul(FMul(heap[o].monthly_invocations.v, Rat(1, 1000000)),
                     LambdaCostPerMillion(heap[o]))
        /\ heap[o].monthly_invocations.v = Zero => get_cost(heap[o]) = Zero
        /\ (heap[o].memory_mb.v = Rat(1024, 1)
                /\ heap[o].monthly_invocations.v = Rat(5000000, 1)
                /\ heap[o].avg_duration_ms.v = Rat(200, 1)) =>
                get_cost(heap[o]) = FAdd(Rat(1, 1), Rat(166667, 10000))

\* The invocations of a function of 1024 MB whose duration had been assigned
\* 200 ms were set to 5,000,000, while another function has none.
C11_Witness ==
    /\ last.op = "LambdaFunction.monthly_invocations" /\ last.ret = "None"
    /\ last.arg = PyInt(5000000)
    /\ heap[last.ref].avg_duration_ms = PyFloat(200, 1)
    /\ heap[last.ref].memory_mb = PyInt(1024)
    /\ \E p \in Live : /\ heap[p].cls = "LambdaFunction"
                       /\ heap[p].monthly_invocations = PyInt(0)

\* The sum of the counts of a count-by-value mapping
RECURSIVE SumCounts(_)
SumCounts(counter) ==
    IF DOMAIN counter = {} THEN 0
    ELSE LET x == CHOOSE y \in DOMAIN counter : TRUE
         IN  counter[x] + SumCounts([y \in DOMAIN counter \ {x} |-> counter[y]])

\* C12: in the report generate_report() returns in any state, total_count
\* is the number of owned resources and the length of the resources list
\* (which holds exactly the owned resources), total_cost is get_total_cost(),
\* the counts of resources_by_region sum to total_count and each is the
\* number of owned resources in that region, likewise resources_by_type per
\* type tag, and no region or type is listed with the count 0.
C12_ReportConsistent ==
    LET report == generate_report(aws_resources, heap)
    IN  /\ report.total_count = Cardinality(owned)
        /\ report.total_count = Len(report.resources)
        /\ Elems(report.resources) = owned
        /\ report.total_cost = get_total_cost(aws_resources, heap)
        /\ SumCounts(report.resources_by_region) = report.total_count
        /\ \A g \in DOMAIN report.resources_by_region :
                /\ report.resources_by_region[g]
                      = Cardinality({o \in owned : heap[o].region = g})
                /\ report.resources_by_region[g] > 0
        /\ SumCounts(report.resources_by_type) = report.total_count
        /\ \A t \in DOMAIN report.resources_by_type :
                /\ report.resources_by_type[t]
                      = Cardinality({o \in owned : heap[o].cls = t})
                /\ report.resources_by_type[t] > 0

\* The Manager owns two databases of one region, the one constructed second
\* having been added first.
C12_Witness ==
    /\ Cardinality(owned) = 2
    /\ \A o \in owned : heap[o].cls = "RDSDatabase"
    /\ DOMAIN generate_report(aws_resources, heap).resources_by_region
            = {"ap-northeast-1"}
    /\ aws_resources[1].ref = 2

\* A list of str values is strictly ascending
StrictlyAscending(l) ==
    \A i, j \in DOMAIN l : i < j => StrLt(l[i], l[j])

\* C13: in every state get_regions() and get_resource_types() are strictly
\* ascending lists whose elements are exactly the regions and the type tags
\* of the owned resources; both are empty when the Manager owns nothing, and
\* a value that no owned resource carries any more is not listed.
C13_UniqueValues ==
    LET regions == get_regions(aws_resources, heap)
        types == get_resource_types(aws_resources, heap)
    IN  /\ StrictlyAscending(regions)
        /\ StrictlyAscending(types)
        /\ Elems(regions) = {heap[o].region : o \in owned}
        /\ Elems(types) = {heap[o].cls : o \in owned}
        /\ owned = {} => regions = <<>> /\ types = <<>>
        /\ last.op = "remove" /\ last.ret = "resource" =>
            /\ (\A o \in owned : heap[o].region # heap[last.ref].region) =>
                    heap[last.ref].region \notin Elems(regions)
            /\ (\A o \in owned : heap[o].cls # heap[last.ref].cls) =>
                    heap[last.ref].cls \notin Elems(types)

\* The only bucket was removed, its region with it, while an instance of a
\* region that sorts before it is still owned.
C13_Witness ==
    /\ last.op = "remove" /\ last.ret = "resource"
    /\ heap[last.ref].cls = "S3Bucket"
    /\ get_regions(aws_resources, heap) = <<"us-east-1">>
    /\ get_resource_types(aws_resources, heap) = <<"EC2Instance">>

\* Spellings of a type tag that differ from it in letter case only
Spellings(tag) ==
    CASE tag = "EC2Instance" -> {"EC2Instance", "ec2instance", "EC2INSTANCE"}
      [] tag = "LambdaFunction" ->
            {"LambdaFunction", "lambdafunction", "LAMBDAFUNCTION"}
      [] tag = "S3Bucket" -> {"S3Bucket", "s3bucket", "S3BUCKET"}
      [] tag = "EBSVolume" -> {"EBSVolume", "ebsvolume", "EBSVOLUME"}
      [] tag = "RDSDatabase" -> {"RDSDatabase", "rdsdatabase", "RDSDATABASE"}

\* Strings that are the spelling of no type tag
NoTypeTag == {"ec2", "S3", "dynamodb", ""}

\* Region strings that differ from a region code in letter case
OtherCaseRegions == {"US-EAST-1", "Us-East-1", "EU-WEST-1", "AP-NORTHEAST-1"}

\* A list holds each element of S once and nothing else
ExactlyOnce(l, S) == Elems(l) = S /\ Len(l) = Cardinality(S)

\* C14: in every state get_resources_by_type(t) is the list of exactly the
\* owned resources whose type tag is t up to letter case, the same list for
\* every spelling of t; get_resources_by_region(r) is the list of exactly
\* the owned resources whose region is the string r, and is empty for a
\* region code written in another case.
C14_FilterQueries ==
    /\ \A tag \in TypeTags : \A t \in Spellings(tag) :
            /\ ExactlyOnce(get_resources_by_type(aws_resources, heap, t),
                           {o \in owned : heap[o].cls = tag})
            /\ get_resources_by_type(aws_resources, heap, t)
                  = get_resources_by_type(aws_resources, heap, tag)
    /\ \A t \in NoTypeTag : get_resources_by_type(aws_resources, heap, t) = <<>>
    /\ \A r \in VALID_REGIONS :
            ExactlyOnce(get_resources_by_region(aws_resources, heap, r),
                        {o \in owned : heap[o].region = r})
    /\ \A r \in OtherCaseRegions :
            get_resources_by_region(aws_resources, heap, r) = <<>>

\* The Manager owns an instance in us-east-1 and a resource of another
\* type elsewhere.
C14_Witness ==
    /\ Cardinality(owned) = 2
    /\ Len(get_resources_by_type(aws_resources, heap, "EC2INSTANCE")) = 1
    /\ Len(get_resources_by_region(aws_resources, heap, "us-east-1")) = 1
    /\ \E o \in owned : heap[o].cls = "EC2Instance" /\ heap[o].region = "us-east-1"
    /\ get_resources_by_region(aws_resources, heap, "US-EAST-1") = <<>>

\* The assignments to the mutable billing fields
SetterOps ==
    {"LambdaFunction.monthly_invocations", "LambdaFunction.avg_duration_ms",
     "S3Bucket.storage_gb", "EBSVolume.size_gb", "RDSDatabase.storage_gb"}

\* C15: a setter call that raises leaves the object as it was (every field,
\* the assigned one and the status included), so its cost is as before.
C15_RejectedSetterChangesNothing ==
    [][(last'.op \in SetterOps /\ last'.ret # "None") =>
        /\ heap'[last'.ref] = heap[last'.ref]
        /\ get_cost(heap'[last'.ref]) = get_cost(heap[last'.ref])
        /\ heap' = heap
      ]_vars

\* A bucket of 500 GB refused a negative size.
C15_Witness ==
    /\ last.op = "S3Bucket.storage_gb" /\ last.ret = "ValueError"
    /\ last.arg = PyFloat(-1, 2)
    /\ heap[last.ref].storage_gb = PyFloat(500, 1)

\* The fields of a variant that have a setter
MutableFields(cls) ==
    CASE cls = "LambdaFunction" -> {"monthly_invocations", "avg_duration_ms"}
      [] cls = "S3Bucket" -> {"storage_gb"}
      [] cls = "EBSVolume" -> {"size_gb"}
      [] cls = "RDSDatabase" -> {"storage_gb"}
      [] OTHER -> {}

\* The setter of field f of self accepts value
SetterAccepts(self, f, value) ==
    "None" = (CASE self.cls = "LambdaFunction" /\ f = "monthly_invocations" ->
                    LambdaFunction_set_monthly_invocations(self, value)
               [] self.cls = "LambdaFunction" /\ f = "avg_duration_ms" ->
                    LambdaFunction_set_avg_duration_ms(self, value)
               [] self.cls = "S3Bucket" -> S3Bucket_set_storage_gb(self, value)
               [] self.cls = "EBSVolume" -> EBSVolume_set_size_gb(self, value)
               [] self.cls = "RDSDatabase" ->
                    RDSDatabase_set_storage_gb(self, value)).ret

\* A resource of the variant whose mutable fields have their least values,
\* so that the grow-only comparison rejects nothing the range admits
Smallest(cls) ==
    CASE cls = "LambdaFunction" ->
            LambdaFunction_init("a", "us-east-1", PyInt(1024), PyInt(0), PyInt(0)).self
      [] cls = "S3Bucket" -> S3Bucket_init("a", "us-east-1", PyInt(0)).self
      [] cls = "EBSVolume" ->
            EBSVolume_init("a", "us-east-1", "gp3", PyInt(1)).self
      [] cls = "RDSDatabase" ->
            RDSDatabase_init("a", "us-east-1", "db.t3.micro", "mysql", PyInt(20), FALSE).self

\* C16: a value is accepted by the constructor for a mutable field iff the
\* setter of that field accepts it (the grow-only comparison aside), and
\* monthly_invocations of a LambdaFunction is a non-negative int in every
\* state.
C16_SetterValidatesAsConstructor ==
    /\ \A o \in Live : heap[o].cls = "LambdaFunction" =>
            /\ IsInt(heap[o].monthly_invocations)
            /\ FGe(heap[o].monthly_invocations.v, Zero)
    /\ last.op = "construct" =>
            \A f \in MutableFields(last.arg.cls) :
                /\ last.at = "none" =>
                        SetterAccepts(heap[last.ref], f, last.arg[f])
                /\ last.at = f =>
                        ~SetterAccepts(Smallest(last.arg.cls), f, last.arg[f])

\* The validation rule of each constructor parameter
ValidArg(cls, f, v) ==
    CASE f = "resource_id" -> v # ""
      [] f = "region" ->
            v \in {"us-east-1", "us-west-2", "eu-west-1", "ap-southeast-1",
                   "ap-northeast-1"}
      [] f = "instance_type" -> v \in {"t2.micro", "t2.small", "t2.medium"}
      [] f = "memory_mb" ->
            /\ IsInt(v)
            /\ v.v.n \in {128, 256, 512, 1024, 2048, 4096, 8192, 10240}
      [] f = "monthly_invocations" -> IsInt(v) /\ FGe(v.v, Zero)
      [] f = "avg_duration_ms" -> IsNumber(v) /\ FGe(v.v, Zero)
      [] f = "storage_gb" /\ cls = "S3Bucket" -> IsNumber(v) /\ FGe(v.v, Zero)
      [] f = "volume_type" -> v \in {"gp2", "gp3", "io1", "io2", "st1", "sc1"}
      [] f = "size_gb" ->
            IsInt(v) /\ FGe(v.v, Rat(1, 1)) /\ FGe(Rat(65536, 1), v.v)
      [] f = "instance_class" ->
            v \in {"db.t3.micro", "db.t3.small", "db.t3.medium", "db.r5.large",
                   "db.r5.xlarge"}
      [] f = "engine" ->
            v \in {"mysql", "MySQL", "postgresql", "PostgreSQL", "mariadb",
                   "oracle", "sqlserver"}
      [] f = "storage_gb" /\ cls = "RDSDatabase" ->
            IsInt(v) /\ FGe(v.v, Rat(20, 1)) /\ FGe(Rat(65536, 1), v.v)

\* The validated parameters of each constructor, in the order of the checks
Params(cls) ==
    <<"resource_id", "region">> \o
    (CASE cls = "EC2Instance" -> <<"instance_type">>
       [] cls = "LambdaFunction" ->
            <<"memory_mb", "monthly_invocations", "avg_duration_ms">>
       [] cls = "S3Bucket" -> <<"storage_gb">>
       [] cls = "EBSVolume" -> <<"volume_type", "size_gb">>
       [] cls = "RDSDatabase" -> <<"instance_class", "engine", "storage_gb">>)

\* The positions of the parameters whose argument is invalid
InvalidAt(args) ==
    {i \in DOMAIN Params(args.cls) :
        ~ValidArg(args.cls, Params(args.cls)[i], args[Params(args.cls)[i]])}

\* C17: a constructor call with an invalid argument raises, no object
\* results and the heap is as before, and the check that raised is that of
\* the first parameter, in the order of Params, whose argument is invalid.
C17_FailsAtFirstInvalid ==
    [][(last'.op = "construct" /\ InvalidAt(last'.arg) # {}) =>
        LET first == CHOOSE i \in InvalidAt(last'.arg) :
                        \A j \in InvalidAt(last'.arg) : i <= j
        IN  /\ last'.ret # "none"
            /\ last'.ref = 0
            /\ heap' = heap
            /\ last'.at = Params(last'.arg.cls)[first]
      ]_vars

\* The short alias of each variant, in several casings
Aliases(tag) ==
    CASE tag = "EC2Instance" -> {"ec2", "EC2", "Ec2"}
      [] tag = "LambdaFunction" -> {"lambda", "LAMBDA", "Lambda"}
      [] tag = "S3Bucket" -> {"s3", "S3"}
      [] tag = "EBSVolume" -> {"ebs", "EBS", "Ebs"}
      [] tag = "RDSDatabase" -> {"rds", "RDS", "Rds"}

\* C18: create_resource called with the short alias or the full tag of a
\* variant, in any casing, returns a resource whose resource_type is that
\* variant's tag; called with any other tag it raises, the error being that
\* of the tag, and no resource results.
C18_FactoryTag ==
    last.op = "create_resource" =>
        LET t == last.arg.resource_type
        IN  /\ \A tag \in TypeTags :
                    t \in Aliases(tag) \cup Spellings(tag) =>
                        /\ last.ret = "none"
                        /\ last.ref \in Live
                        /\ heap[last.ref].cls = tag
            /\ (\A tag \in TypeTags : t \notin Aliases(tag) \cup Spellings(tag)) =>
                    /\ last.ret = "ValueError"
                    /\ last.at = "resource_type"
                    /\ last.ref = 0

\* The factory made the caller's first resource, a function, from the alias
\* written "Lambda".
C18_Witness ==
    /\ last.op = "create_resource" /\ last.ret = "none"
    /\ last.arg.resource_type = "Lambda"
    /\ heap[last.ref].cls = "LambdaFunction"
    /\ last.ref = 1

\* C19: two resources are equal iff they have the same class and the same
\* resource_id, whatever their region, status and billing fields; equal
\* resources have equal hashes; no step changes whether two resources are
\* equal or the hash of a resource.
C19_EqualIffSameClassAndId ==
    \A o, p \in Live :
        /\ (CloudResource_eq(heap[o], heap[p]) = "True")
              <=> (heap[o].cls = heap[p].cls
                     /\ heap[o].resource_id = heap[p].resource_id)
        /\ CloudResource_eq(heap[o], heap[p]) \in {"True", "False"}
        /\ CloudResource_eq(heap[o], heap[p]) = "True" =>
                CloudResource_hash(heap[o]) = CloudResource_hash(heap[p])

C19_EqualityAndHash ==
    /\ []C19_EqualIffSameClassAndId
    /\ [][\A o, p \in Live :
            /\ CloudResource_eq(heap'[o], heap'[p])
                  = CloudResource_eq(heap[o], heap[p])
            /\ CloudResource_hash(heap'[o]) = CloudResource_hash(heap[o])
        ]_vars

\* An instance was started that is equal to another object, which is in
\* another region, of another instance type and stopped.
C19_Witness ==
    /\ last.op = "start" /\ last.ret = "True"
    /\ \E p \in Live :
            /\ p # last.ref
            /\ CloudResource_eq(heap[last.ref], heap[p]) = "True"
            /\ heap[p].region # heap[last.ref].region
            /\ heap[p].instance_type # heap[last.ref].instance_type
            /\ heap[p].status = STATUS_STOPPED

\* C20: add_aws_resource(r) raises iff the Manager owns a resource equal to
\* r (same class and same resource_id).
C20_AddRejectsIffEqualOwned ==
    [][last'.op = "add" =>
        (last'.ret = "ValueError"
            <=> \E p \in owned :
                    CloudResource_eq(heap[p], heap[last'.ref]) = "True")
      ]_vars

\* C20, amended: add_aws_resource(r) raises iff the Manager owns a resource
\* with the resource_id of r, of whatever class; hence it raises whenever
\* the Manager owns a resource equal to r, and it accepts r whenever no
\* owned resource has its resource_id.
C20_AddRejectsIffIdOwned ==
    [][last'.op = "add" =>
        /\ last'.ret = "ValueError"
              <=> \E p \in owned :
                      heap[p].resource_id = heap[last'.ref].resource_id
        /\ (\E p \in owned :
                CloudResource_eq(heap[p], heap[last'.ref]) = "True")
              => last'.ret = "ValueError"
        /\ last'.ret = "None" => owned' = owned \cup {last'.ref}
        /\ last'.ret = "ValueError" => owned' = owned
      ]_vars

\* The Manager refused a resource that is equal to none of those it owns:
\* one of them, of another class, has its resource_id.
C20_Witness ==
    /\ last.op = "add" /\ last.ret = "ValueError"
    /\ \A p \in owned : CloudResource_eq(heap[p], heap[last.ref]) = "False"
    /\ \E p \in owned : /\ heap[p].resource_id = heap[last.ref].resource_id
                        /\ heap[p].cls # heap[last.ref].cls

\* The fields of a resource that have no setter: resource_id, region, the
\* type tag and the parameters of the variant that are fixed at construction
Immutable(self) ==
    <<self.resource_id, self.region, self.cls,
      CASE self.cls = "EC2Instance" -> <<self.instance_type>>
        [] self.cls = "LambdaFunction" -> <<self.memory_mb>>
        [] self.cls = "S3Bucket" -> <<>>
        [] self.cls = "EBSVolume" -> <<self.volume_type>>
        [] self.cls = "RDSDatabase" ->
              <<self.instance_class, self.engine, self.multi_az>> >>

\* C21: no step (start, stop, a setter accepted or rejected, get_cost,
\* get_info, an operation or a query of the Manager) changes the
\* resource_id, the region, the type tag or a fixed parameter of a resource.
C21_ImmutableFields ==
    [][\A o \in Live : Immutable(heap'[o]) = Immutable(heap[o])]_vars

\* A registered Multi-AZ database accepted a larger storage size.
C21_Witness ==
    /\ last.op = "RDSDatabase.storage_gb" /\ last.ret = "None"
    /\ last.ref \in owned
    /\ heap[last.ref].multi_az
    /\ heap[last.ref].storage_gb = PyInt(65536)

\* The calls that only read
QueryOps ==
    {"get_cost", "get_info", "get_aws_resources", "get_total_cost",
     "get_resources_by_region", "get_resources_by_type", "get_regions",
     "get_resource_types", "generate_report"}

\* C22: get_cost() never raises on a constructed resource; get_cost(),
\* get_info() and the queries of the Manager change no field of any resource
\* and leave the registry as it was; a query repeated right after itself
\* returns the same value.
C22_QueriesNeverFailAndArePure ==
    [][/\ last'.op = "get_cost" => last'.ret = "float"
       /\ last'.op \in QueryOps =>
            /\ heap' = heap
            /\ aws_resources' = aws_resources
            /\ owned' = owned
       /\ (last.op \in QueryOps /\ last'.op = last.op /\ last'.ref = last.ref
                /\ last'.arg = last.arg) =>
            last'.value = last.value
      ]_vars

Splits(groups, all) ==
    /\ \A i \in DOMAIN groups :
          groups[i] # <<>> /\ Len(groups[i]) = Cardinality(Elems(groups[i]))
    /\ \A i, j \in DOMAIN groups :
          i # j => Elems(groups[i]) \cap Elems(groups[j]) = {}
    /\ UNION {Elems(groups[i]) : i \in DOMAIN groups} = Elems(all)

\* The sum of the costs of the groups, each the sum of the costs of its
\* resources
RECURSIVE SumGroups(_)
SumGroups(groups) ==
    IF groups = <<>> THEN Zero
    ELSE FAdd(SumCosts(Head(groups), heap, Zero), SumGroups(Tail(groups)))

\* The results of get_resources_by_region over get_regions(), and of
\* get_resources_by_type over get_resource_types()
RegionGroups ==
    LET regions == get_regions(aws_resources, heap)
    IN  [i \in DOMAIN regions |->
            get_resources_by_region(aws_resources, heap, regions[i])]

TypeGroups ==
    LET types == get_resource_types(aws_resources, heap)
    IN  [i \in DOMAIN types |->
            get_resources_by_type(aws_resources, heap, types[i])]

====
